---- MODULE Spec2Model ----
(***************************************************************************)
(* DocPilotAI (app.py): fixed-size chunking of extracted PDF text, keyword *)
(* overlap retrieval over the process-wide corpus DOCUMENT_CHUNKS, and the *)
(* three handlers the interface wires up (process_pdfs, chat_fn,           *)
(* clear_all).  A Python str is a sequence of one-character strings.       *)
(***************************************************************************)
EXTENDS Integers, Sequences, FiniteSets, TLC

VARIABLES
    DOCUMENT_CHUNKS,  \* the corpus, line 30
    GROQ_API_KEY,     \* line 11
    chatbot,          \* the transcript on display, line 164
    status,           \* the status box, line 183
    call,             \* the last call: its arguments, the corpus it found, its outcome
    posts             \* the requests the last call posted to the completion service

vars == <<DOCUMENT_CHUNKS, GROQ_API_KEY, chatbot, status, call, posts>>

(***************************************************************************)
(* Python values                                                           *)
(***************************************************************************)

\* Optional[str] / Optional[list]: None, or a value.
None == [isNone |-> TRUE, val |-> <<>>]

Some(v) == [isNone |-> FALSE, val |-> v]

\* Python truthiness of an Optional sequence: None and the empty one are falsy.
Truthy(o) == (~o.isNone) /\ o.val # <<>>

Min(a, b) == IF a <= b THEN a ELSE b

\* s[a:b] for 0 <= a <= b (0-based, end exclusive, clipped to len(s)).
Slice(s, a, b) == SubSeq(s, a + 1, Min(b, Len(s)))

\* s * n
RECURSIVE Repeat(_, _)
Repeat(s, n) == IF n <= 0 THEN <<>> ELSE s \o Repeat(s, n - 1)

\* The concatenation of a sequence of strings.
RECURSIVE Concat(_)
Concat(ss) == IF ss = <<>> THEN <<>> ELSE Head(ss) \o Concat(Tail(ss))

AsciiLower == <<"a", "b", "c", "d", "e", "f", "g", "h", "i", "j", "k", "l", "m", "n", "o", "p", "q", "r", "s", "t", "u", "v", "w", "x", "y", "z">>

AsciiUpper == <<"A", "B", "C", "D", "E", "F", "G", "H", "I", "J", "K", "L", "M", "N", "O", "P", "Q", "R", "S", "T", "U", "V", "W", "X", "Y", "Z">>

AsciiDigits == <<"0", "1", "2", "3", "4", "5", "6", "7", "8", "9">>

Range(s) == {s[i] : i \in DOMAIN s}

\* str.isspace(): the class \s of re, and what str.split() and str.strip()
\* treat as whitespace.
Whitespace == {" ", "\t", "\n", "\r", "\f"}

IsSpace(c) == c \in Whitespace

\* The characters [a-z0-9\s] matches.
WordOrSpace == Range(AsciiLower) \cup Range(AsciiDigits) \cup Whitespace

\* str.lower() of one character: A-Z to a-z, the rest as it is.
LowerMap == [c \in Range(AsciiUpper) |->
                AsciiLower[CHOOSE i \in DOMAIN AsciiUpper : AsciiUpper[i] = c]]

LowerChar(c) == IF c \in DOMAIN LowerMap THEN LowerMap[c] ELSE c

\* str.lower()
lower(text) == [i \in DOMAIN text |-> LowerChar(text[i])]

\* re.sub(r"[^a-z0-9\s]", " ", text)
re_sub(text) == [i \in DOMAIN text |-> IF text[i] \in WordOrSpace THEN text[i] ELSE " "]

\* set(text.split()): the maximal runs of non-whitespace characters.
split_set(text) ==
    LET starts == {i \in DOMAIN text :
                      ~IsSpace(text[i]) /\ (i = 1 \/ IsSpace(text[i - 1]))}
        stop(i) == CHOOSE j \in i..Len(text) :
                      /\ j = Len(text) \/ IsSpace(text[j + 1])
                      /\ \A k \in i..j : ~IsSpace(text[k])
    IN  {SubSeq(text, i, stop(i)) : i \in starts}

\* str.strip(): from the first character that is not whitespace to the last.
strip(text) ==
    IF \A i \in DOMAIN text : IsSpace(text[i]) THEN <<>>
    ELSE SubSeq(text,
                CHOOSE i \in DOMAIN text :
                    ~IsSpace(text[i]) /\ \A j \in 1..(i - 1) : IsSpace(text[j]),
                CHOOSE i \in DOMAIN text :
                    ~IsSpace(text[i]) /\ \A j \in (i + 1)..Len(text) : IsSpace(text[j]))

\* sep.join(parts)
RECURSIVE join(_, _)
join(sep, parts) ==
    IF parts = <<>> THEN <<>>
    ELSE IF Len(parts) = 1 THEN parts[1]
    ELSE parts[1] \o sep \o join(sep, Tail(parts))

(***************************************************************************)
(* Program constants                                                       *)
(***************************************************************************)

\* chunk_text's default chunk_size
CHUNK_SIZE == 400

\* the length a stripped window must exceed to be kept
MIN_CHUNK_LEN == 50

\* retrieve_relevant_chunks's default top_k
TOP_K == 3

(***************************************************************************)
(* Text preparation                                                        *)
(***************************************************************************)

\* extract_text_from_pdfs: a file is the sequence of its pages, a page is
\* what page.extract_text() returns for it (None, or a string).
RECURSIVE extract_pages(_, _)
extract_pages(pages, text) ==
    IF pages = <<>> THEN text
    ELSE extract_pages(Tail(pages),
                       IF Truthy(Head(pages))
                       THEN text \o Head(pages).val \o <<"\n">>
                       ELSE text)

RECURSIVE extract_files(_, _)
extract_files(files, text) ==
    IF files = <<>> THEN text
    ELSE extract_files(Tail(files), extract_pages(Head(files), text))

extract_text_from_pdfs(files) == extract_files(files, <<>>)

\* long_enough with the comparison made inclusive.
long_enough_inclusive(chunk) == Len(chunk) >= MIN_CHUNK_LEN

\* The test of line 48 on a stripped window.
long_enough(chunk) == Len(chunk) > MIN_CHUNK_LEN

\* chunk_step with the window measured and kept as cut, never stripped.
chunk_step_unstripped(text, chunk_size, i, chunks) ==
    LET chunk == Slice(text, i, i + chunk_size)
    IN  IF long_enough(chunk) THEN Append(chunks, chunk) ELSE chunks

\* One iteration of chunk_text's loop, at offset i.
chunk_step(text, chunk_size, i, chunks) ==
    LET chunk == strip(Slice(text, i, i + chunk_size))
    IN  IF long_enough(chunk) THEN Append(chunks, chunk) ELSE chunks

\* for i in range(0, len(text), chunk_size)
RECURSIVE chunk_loop(_, _, _, _)
chunk_loop(text, chunk_size, i, chunks) ==
    IF i >= Len(text) THEN chunks
    ELSE chunk_loop(text, chunk_size, i + chunk_size,
                    chunk_step(text, chunk_size, i, chunks))

chunk_text(text, chunk_size) == chunk_loop(text, chunk_size, 0, <<>>)

(***************************************************************************)
(* Retrieval                                                               *)
(***************************************************************************)

clean_words(text) == split_set(re_sub(lower(text)))

\* insert_sorted placing a pair before the pairs of equal score, as an
\* ascending sort that is then reversed would.
RECURSIVE insert_before_equal(_, _)
insert_before_equal(sorted, pair) ==
    IF sorted = <<>> THEN <<pair>>
    ELSE IF Head(sorted)[1] > pair[1]
         THEN <<Head(sorted)>> \o insert_before_equal(Tail(sorted), pair)
         ELSE <<pair>> \o sorted

\* list.sort(reverse=True, key=lambda x: x[0]): a stable sort, so pairs of
\* equal score keep the order they were appended in.  Insertion from the
\* left, each pair placed after every pair whose score is not smaller.
RECURSIVE insert_sorted(_, _)
insert_sorted(sorted, pair) ==
    IF sorted = <<>> THEN <<pair>>
    ELSE IF Head(sorted)[1] >= pair[1]
         THEN <<Head(sorted)>> \o insert_sorted(Tail(sorted), pair)
         ELSE <<pair>> \o sorted

RECURSIVE sort_by_score(_, _)
sort_by_score(pairs, sorted) ==
    IF pairs = <<>> THEN sorted
    ELSE sort_by_score(Tail(pairs), insert_sorted(sorted, Head(pairs)))

\* score_chunks keeping the chunks of overlap 0 too.
RECURSIVE score_chunks_unfiltered(_, _, _)
score_chunks_unfiltered(query_words, corpus, scored_chunks) ==
    IF corpus = <<>> THEN scored_chunks
    ELSE LET chunk == Head(corpus)
             overlap_score == Cardinality(query_words \cap clean_words(chunk))
         IN  score_chunks_unfiltered(query_words, Tail(corpus),
                                     Append(scored_chunks, <<overlap_score, chunk>>))

\* The loop of lines 66-70 over the corpus.
RECURSIVE score_chunks(_, _, _)
score_chunks(query_words, corpus, scored_chunks) ==
    IF corpus = <<>> THEN scored_chunks
    ELSE LET chunk == Head(corpus)
             overlap_score == Cardinality(query_words \cap clean_words(chunk))
         IN  score_chunks(query_words, Tail(corpus),
                          IF overlap_score > 0
                          THEN Append(scored_chunks, <<overlap_score, chunk>>)
                          ELSE scored_chunks)

\* retrieve_relevant_chunks returning every scored chunk, top_k ignored.
retrieve_all_scored(query, top_k) ==
    LET query_words == clean_words(query)
    IN  IF query_words = {} THEN <<>>
        ELSE LET scored_chunks ==
                     sort_by_score(score_chunks(query_words, DOCUMENT_CHUNKS, <<>>), <<>>)
             IN  [i \in 1..Len(scored_chunks) |-> scored_chunks[i][2]]

\* retrieve_relevant_chunks(query, top_k), reading the global corpus; top_k >= 0.
retrieve_relevant_chunks(query, top_k) ==
    LET query_words == clean_words(query)
    IN  IF query_words = {} THEN <<>>
        ELSE LET scored_chunks ==
                     sort_by_score(score_chunks(query_words, DOCUMENT_CHUNKS, <<>>), <<>>)
             IN  [i \in 1..Min(top_k, Len(scored_chunks)) |-> scored_chunks[i][2]]

(***************************************************************************)
(* Completion call                                                         *)
(***************************************************************************)

NO_KEY == "GROQ API key not found."

NO_RELEVANT == "No relevant information found in the uploaded PDFs."

API_ERROR == "Error communicating with Groq API."

PLEASE_UPLOAD == "Please upload and process PDFs first."

\* What requests.post does with the request: it raises (no connection, a
\* timeout), or returns a response with a status code; a 200 response
\* carries choices[0].message.content, or a body without it.
Responses ==
    { [raises |-> TRUE,  status_code |-> 0,   has_content |-> FALSE, content |-> ""],
      [raises |-> FALSE, status_code |-> 200, has_content |-> TRUE,  content |-> "The document says so."],
      [raises |-> FALSE, status_code |-> 200, has_content |-> FALSE, content |-> ""],
      [raises |-> FALSE, status_code |-> 401, has_content |-> FALSE, content |-> ""] }

Returned(reply, sent) == [raised |-> FALSE, exc |-> "", reply |-> reply, posts |-> sent]

Raised(exc, sent) == [raised |-> TRUE, exc |-> exc, reply |-> "", posts |-> sent]

\* The request of lines 87-103 and the response it got.
Post(context, question, response) ==
    [url |-> "https://api.groq.com/openai/v1/chat/completions",
     model |-> "llama-3.3-70b-versatile",
     context |-> context,
     question |-> question,
     authorization |-> GROQ_API_KEY.val,
     response |-> response]

\* Lines 103-108: the post and what ask_groq makes of the response.
post_and_read(context, question, response) ==
    LET sent == <<Post(context, question, response)>>
    IN  IF response.raises THEN Raised("ConnectionError", sent)
        ELSE IF response.status_code = 200
             THEN IF response.has_content
                  THEN Returned(response.content, sent)
                  ELSE Raised("KeyError", sent)
             ELSE Returned(API_ERROR, sent)

\* ask_groq without the test of line 82: it posts whatever retrieval found.
ask_groq_unguarded(question) ==
    IF ~Truthy(GROQ_API_KEY) THEN {Returned(NO_KEY, <<>>)}
    ELSE LET relevant_chunks == retrieve_relevant_chunks(question, TOP_K)
             context == join(<<"\n", "\n">>, relevant_chunks)
         IN  {post_and_read(context, question, response) : response \in Responses}

\* ask_groq(question): the outcomes it can have, one for each thing the
\* service can do when it is called.  An outcome is the reply returned or the
\* exception let through, and the requests posted.
ask_groq(question) ==
    IF ~Truthy(GROQ_API_KEY) THEN {Returned(NO_KEY, <<>>)}
    ELSE LET relevant_chunks == retrieve_relevant_chunks(question, TOP_K)
         IN  IF relevant_chunks = <<>> THEN {Returned(NO_RELEVANT, <<>>)}
             ELSE LET context == join(<<"\n", "\n">>, relevant_chunks)
                  IN  {post_and_read(context, question, response) :
                          response \in Responses}

(***************************************************************************)
(* Inputs                                                                  *)
(***************************************************************************)

\* The longest upload, in files.
MaxFiles == 2

\* The longest transcript a question is asked on, in messages.
MaxHistory == 2

\* The longest corpus handed to retrieve_relevant_chunks on its own.
MaxCorpus == 3

\* The largest top_k handed to retrieve_relevant_chunks on its own.
MaxTopK == 3

\* The longest text handed to chunk_text on its own, in blocks.
MaxBlocks == 4

\* The sequences over S of length at most n.
SeqsUpTo(S, n) == UNION {[1..k -> S] : k \in 0..n}

PhraseCat == <<"T", "h", "e", " ", "c", "a", "t", " ", "s", "a", "t", " ", "o", "n", " ", "t", "h", "e", " ", "m", "a", "t", ".", " ">>

PhraseDog == <<"D", "o", "g", "s", " ", "b", "a", "r", "k", " ", "l", "o", "u", "d", "l", "y", " ", "a", "t", " ", "n", "i", "g", "h", "t", "!", "\n">>

PageCats == Repeat(PhraseCat, 9)

PageDogs == Repeat(PhraseDog, 10)

PageBlank == Repeat(<<" ", "\t">>, 60)

PageShort == <<"C", "a", "t", "s", " ", "a", "n", "d", " ", "d", "o", "g", "s", " ", "a", "r", "e", " ", "p", "e", "t", "s", ".">>

\* The documents a user uploads: each the pages PdfReader finds in it.
FileCats == <<Some(PageCats), None, Some(PageDogs)>>

FileDogs == <<Some(PageDogs)>>

FileSparse == <<Some(<<>>), Some(PageBlank), Some(PageShort)>>

Files == {FileCats, FileDogs, FileSparse}

\* What the upload widget hands to process_pdfs: None, or a list of files.
Uploads == {None} \cup {Some(fs) : fs \in SeqsUpTo(Files, MaxFiles)}

QueryCatDog == <<"c", "a", "t", " ", "d", "o", "g">>

QueryNightPets == <<"N", "i", "g", "h", "t", " ", "p", "e", "t", "s", "?">>

QueryZebra == <<"z", "e", "b", "r", "a", " ", "7">>

QueryMarks == <<"?", "!">>

Questions == {QueryCatDog, QueryNightPets, QueryZebra, QueryMarks, <<>>}

\* The values of the GROQ_API_KEY environment variable: unset, empty, set.
ApiKeys == {None, Some(<<>>), Some(<<"g", "s", "k">>)}

(***************************************************************************)
(* The handlers                                                            *)
(***************************************************************************)

Status(text, files, chunks) == [text |-> text, files |-> files, chunks |-> chunks]

STATUS_INITIAL == Status("Upload PDFs to get started", 0, 0)

STATUS_NO_FILES == Status("No files uploaded.", 0, 0)

STATUS_CLEARED == Status("Cleared. Upload PDFs to start again.", 0, 0)

\* f"{len(files)} PDF(s) processed\n{len(DOCUMENT_CHUNKS)} text chunks created"
STATUS_PROCESSED(files, chunks) ==
    Status("{files} PDF(s) processed, {chunks} text chunks created", files, chunks)

\* The corpus process_pdfs leaves for a non-empty upload.
new_corpus(files) == chunk_text(extract_text_from_pdfs(files), CHUNK_SIZE)

\* process_pdfs resetting the corpus before it looks at the upload.
process_pdfs_clearing(files) ==
    /\ IF ~Truthy(files)
       THEN /\ status' = STATUS_NO_FILES
            /\ DOCUMENT_CHUNKS' = <<>>
       ELSE /\ DOCUMENT_CHUNKS' = new_corpus(files.val)
            /\ status' = STATUS_PROCESSED(Len(files.val), Len(DOCUMENT_CHUNKS'))
    /\ call' = [op |-> "process_pdfs", files |-> files, raised |-> FALSE,
                before_len |-> Len(DOCUMENT_CHUNKS)]
    /\ posts' = <<>>
    /\ UNCHANGED <<GROQ_API_KEY, chatbot>>

\* process_pdfs extending the corpus with the new chunks.
process_pdfs_appending(files) ==
    /\ IF ~Truthy(files)
       THEN /\ status' = STATUS_NO_FILES
            /\ UNCHANGED DOCUMENT_CHUNKS
       ELSE /\ DOCUMENT_CHUNKS' = DOCUMENT_CHUNKS \o new_corpus(files.val)
            /\ status' = STATUS_PROCESSED(Len(files.val), Len(DOCUMENT_CHUNKS'))
    /\ call' = [op |-> "process_pdfs", files |-> files, raised |-> FALSE,
                before_len |-> Len(DOCUMENT_CHUNKS)]
    /\ posts' = <<>>
    /\ UNCHANGED <<GROQ_API_KEY, chatbot>>

process_pdfs(files) ==
    /\ IF ~Truthy(files)
       THEN /\ status' = STATUS_NO_FILES
            /\ UNCHANGED DOCUMENT_CHUNKS
       ELSE /\ DOCUMENT_CHUNKS' = new_corpus(files.val)
            /\ status' = STATUS_PROCESSED(Len(files.val), Len(DOCUMENT_CHUNKS'))
    /\ call' = [op |-> "process_pdfs", files |-> files, raised |-> FALSE,
                before_len |-> Len(DOCUMENT_CHUNKS)]
    /\ posts' = <<>>
    /\ UNCHANGED <<GROQ_API_KEY, chatbot>>

\* The reply of lines 131-134: the outcomes it can have.
chat_reply(message) ==
    IF DOCUMENT_CHUNKS = <<>>
    THEN {Returned(PLEASE_UPLOAD, <<>>)}
    ELSE ask_groq(message)

\* chat_fn(message, history), history being the transcript on display; an
\* exception leaves the outputs as they were.
chat_fn(message) ==
    LET history == IF Truthy(chatbot) THEN chatbot.val ELSE <<>>
        asked == Append(history, [role |-> "user", content |-> message])
    IN  /\ Len(history) + 2 <= MaxHistory
        /\ \E got \in chat_reply(message) :
              /\ chatbot' = IF got.raised THEN chatbot
                            ELSE Some(Append(asked, [role |-> "assistant",
                                                     content |-> got.reply]))
              /\ call' = [op |-> "chat_fn", message |-> message, raised |-> got.raised,
                          exc |-> got.exc, reply |-> got.reply,
                          before_len |-> Len(DOCUMENT_CHUNKS)]
              /\ posts' = got.posts
        /\ UNCHANGED <<DOCUMENT_CHUNKS, GROQ_API_KEY, status>>

\* clear_all resetting the transcript and the status only.
clear_all_keeps_corpus ==
    /\ UNCHANGED DOCUMENT_CHUNKS
    /\ chatbot' = Some(<<>>)
    /\ status' = STATUS_CLEARED
    /\ call' = [op |-> "clear_all", raised |-> FALSE, before_len |-> Len(DOCUMENT_CHUNKS)]
    /\ posts' = <<>>
    /\ UNCHANGED GROQ_API_KEY

clear_all ==
    /\ DOCUMENT_CHUNKS' = <<>>
    /\ chatbot' = Some(<<>>)
    /\ status' = STATUS_CLEARED
    /\ call' = [op |-> "clear_all", raised |-> FALSE, before_len |-> Len(DOCUMENT_CHUNKS)]
    /\ posts' = <<>>
    /\ UNCHANGED GROQ_API_KEY

ProcessPdfs == \E files \in Uploads : process_pdfs(files)

ChatFn == \E message \in Questions : chat_fn(message)

ClearAll == clear_all

\* The module as loaded: lines 10-11, 30, 164, 185.
Init ==
    /\ DOCUMENT_CHUNKS = <<>>
    /\ GROQ_API_KEY \in ApiKeys
    /\ chatbot = None
    /\ status = STATUS_INITIAL
    /\ call = [op |-> "load", raised |-> FALSE, before_len |-> 0]
    /\ posts = <<>>

Next == ProcessPdfs \/ ChatFn \/ ClearAll

Spec == Init /\ [][Next]_vars

(***************************************************************************)
(* retrieve_relevant_chunks on its own: any corpus, query and top_k        *)
(***************************************************************************)

ChunkMat == <<"t", "h", "e", " ", "c", "a", "t", " ", "s", "a", "t", " ", "o", "n", " ", "t", "h", "e", " ", "m", "a", "t">>

ChunkBark == <<"d", "o", "g", "s", " ", "b", "a", "r", "k", " ", "l", "o", "u", "d", "l", "y", " ", "a", "t", " ", "n", "i", "g", "h", "t">>

ChunkPets == <<"c", "a", "t", "s", " ", "a", "n", "d", " ", "d", "o", "g", "s", " ", "a", "r", "e", " ", "p", "e", "t", "s">>

ChunkBoth == <<"C", "a", "t", ",", " ", "D", "O", "G", ";", " ", "c", "a", "t", "-", "d", "o", "g", "!">>

ChunkADog == <<"a", " ", "d", "o", "g", " ", "a", "n", "d", " ", "a", " ", "c", "a", "t">>

SmallChunks == {ChunkMat, ChunkBark, ChunkPets, ChunkBoth, ChunkADog}

InitRetrieve ==
    /\ DOCUMENT_CHUNKS \in SeqsUpTo(SmallChunks, MaxCorpus)
    /\ GROQ_API_KEY = None
    /\ chatbot = None
    /\ status = STATUS_INITIAL
    /\ call \in {[op |-> "retrieve_relevant_chunks", query |-> q, top_k |-> k,
                   done |-> FALSE, result |-> <<>>] :
                      q \in Questions, k \in 0..MaxTopK}
    /\ posts = <<>>

Retrieve ==
    /\ call.op = "retrieve_relevant_chunks"
    /\ ~call.done
    /\ call' = [call EXCEPT !.done = TRUE,
                            !.result = retrieve_relevant_chunks(call.query, call.top_k)]
    /\ UNCHANGED <<DOCUMENT_CHUNKS, GROQ_API_KEY, chatbot, status, posts>>

SpecRetrieve == InitRetrieve /\ [][Retrieve]_vars

(***************************************************************************)
(* chunk_text on its own: any text and chunk size                          *)
(***************************************************************************)

BlockLetters == AsciiLower \o AsciiDigits

BlockSpaces == Repeat(<<" ", "\t", "\n">>, 8)

Blocks == {BlockLetters, BlockSpaces, PhraseCat}

ChunkSizes == {17, 51, 60, 75, CHUNK_SIZE}

InitChunk ==
    /\ DOCUMENT_CHUNKS = <<>>
    /\ GROQ_API_KEY = None
    /\ chatbot = None
    /\ status = STATUS_INITIAL
    /\ call \in {[op |-> "chunk_text", text |-> Concat(bs), chunk_size |-> cs,
                   done |-> FALSE, result |-> <<>>] :
                      bs \in SeqsUpTo(Blocks, MaxBlocks), cs \in ChunkSizes}
    /\ posts = <<>>

ChunkText ==
    /\ call.op = "chunk_text"
    /\ ~call.done
    /\ call' = [call EXCEPT !.done = TRUE,
                            !.result = chunk_text(call.text, call.chunk_size)]
    /\ UNCHANGED <<DOCUMENT_CHUNKS, GROQ_API_KEY, chatbot, status, posts>>

SpecChunk == InitChunk /\ [][ChunkText]_vars

(***************************************************************************)
(* Properties of retrieve_relevant_chunks (SpecRetrieve)                   *)
(***************************************************************************)

Retrieved == call.op = "retrieve_relevant_chunks" /\ call.done

\* The overlap count of the query with the i-th chunk of the corpus.
Overlap(i) == Cardinality(clean_words(call.query) \cap clean_words(DOCUMENT_CHUNKS[i]))

Matching == {i \in DOMAIN DOCUMENT_CHUNKS : Overlap(i) > 0}

\* Chunk j is ranked before chunk i: a higher count, or the same count and
\* an earlier place in the corpus.
RankedBefore(j, i) == Overlap(j) > Overlap(i) \/ (Overlap(j) = Overlap(i) /\ j < i)

Rank(i) == Cardinality({j \in Matching : RankedBefore(j, i)}) + 1

\* C1: retrieve_relevant_chunks returns at most top_k chunks, each one a chunk
\* of the corpus that shares a word with the query; an empty corpus or a query
\* without words gives the empty result.
C1_AtMostTopKMatching ==
    Retrieved =>
        /\ Len(call.result) <= call.top_k
        /\ \A r \in DOMAIN call.result :
              \E i \in DOMAIN DOCUMENT_CHUNKS :
                  DOCUMENT_CHUNKS[i] = call.result[r] /\ Overlap(i) > 0
        /\ (DOCUMENT_CHUNKS = <<>> \/ clean_words(call.query) = {}) => Len(call.result) = 0

\* A call that cut the result to top_k and left a chunk of overlap 0 out.
C1_Witness ==
    /\ Retrieved
    /\ call.top_k >= 1
    /\ Len(call.result) = call.top_k
    /\ Cardinality(Matching) > call.top_k
    /\ \E i \in DOMAIN DOCUMENT_CHUNKS : Overlap(i) = 0

\* C2: the result is the first top_k of the matching chunks ordered by overlap
\* count, highest first, chunks of equal count in corpus order.
C2_RankedStable ==
    Retrieved =>
        /\ Len(call.result) = Min(call.top_k, Cardinality(Matching))
        /\ \A r \in DOMAIN call.result :
              \E i \in Matching : Rank(i) = r /\ call.result[r] = DOCUMENT_CHUNKS[i]

\* A result holding two different chunks of the same count, with a matching
\* chunk left out.
C2_Witness ==
    /\ Retrieved
    /\ Cardinality(Matching) > Len(call.result)
    /\ \E i, j \in Matching :
          /\ i < j
          /\ Overlap(i) = Overlap(j)
          /\ DOCUMENT_CHUNKS[i] # DOCUMENT_CHUNKS[j]
          /\ Rank(j) <= Len(call.result)

WordCat == <<"c", "a", "t">>

WordDog == <<"d", "o", "g">>

\* The scenario: the three-chunk corpus, the query "cat dog", top_k = 2.
C7_Scenario ==
    /\ Retrieved
    /\ DOCUMENT_CHUNKS = <<ChunkMat, ChunkBark, ChunkPets>>
    /\ call.query = QueryCatDog
    /\ call.top_k = 2

\* C7 as stated: the scenario returns the first and the third chunk.
C7_AsStated == C7_Scenario => call.result = <<ChunkMat, ChunkPets>>

\* C7, amended: the scenario returns the first chunk only; the overlap counts
\* are 1, 0 and 0, "cats" and "dogs" being other words than "cat" and "dog".
C7_FirstChunkOnly ==
    C7_Scenario =>
        /\ call.result = <<ChunkMat>>
        /\ clean_words(call.query) = {WordCat, WordDog}
        /\ clean_words(ChunkMat) \cap {WordCat, WordDog} = {WordCat}
        /\ clean_words(ChunkBark) \cap {WordCat, WordDog} = {}
        /\ clean_words(ChunkPets) \cap {WordCat, WordDog} = {}
        /\ Overlap(1) = 1 /\ Overlap(2) = 0 /\ Overlap(3) = 0

C7_Witness == C7_Scenario /\ Len(call.result) = 1

(***************************************************************************)
(* Properties of chunk_text (SpecChunk)                                    *)
(***************************************************************************)

Chunked == call.op = "chunk_text" /\ call.done

NumWindows == (Len(call.text) + call.chunk_size - 1) \div call.chunk_size

\* The k-th window of the text, stripped.
Window(k) ==
    strip(SubSeq(call.text, (k - 1) * call.chunk_size + 1,
                 Min(k * call.chunk_size, Len(call.text))))

Surviving == {k \in 1..NumWindows : Len(Window(k)) > MIN_CHUNK_LEN}

\* C8: chunk_text returns the stripped windows of chunk_size characters whose
\* stripped length exceeds 50, in the order of the text; a text of at most 50
\* characters gives none.
C8_StrippedWindows ==
    Chunked =>
        /\ Len(call.result) = Cardinality(Surviving)
        /\ \A n \in DOMAIN call.result :
              \E k \in Surviving :
                  /\ Cardinality({m \in Surviving : m <= k}) = n
                  /\ call.result[n] = Window(k)
        /\ Len(call.text) <= MIN_CHUNK_LEN => Len(call.result) = 0

\* A short window dropped with a surviving window after it.
C8_Witness ==
    /\ Chunked
    /\ \E k \in 1..NumWindows, m \in Surviving : k \notin Surviving /\ k < m

(***************************************************************************)
(* Properties of the handlers (Spec)                                       *)
(***************************************************************************)

\* C3: every chunk of the corpus has no leading or trailing whitespace, more
\* than 50 characters and at most 400.
C3_ValidChunks ==
    \A i \in DOMAIN DOCUMENT_CHUNKS :
        LET chunk == DOCUMENT_CHUNKS[i]
        IN  /\ Len(chunk) > MIN_CHUNK_LEN
            /\ Len(chunk) <= CHUNK_SIZE
            /\ ~IsSpace(chunk[1])
            /\ ~IsSpace(chunk[Len(chunk)])

\* A question asked on a corpus with a full window and a stripped one.
C3_Witness ==
    /\ call.op = "chat_fn"
    /\ \E i, j \in DOMAIN DOCUMENT_CHUNKS :
          Len(DOCUMENT_CHUNKS[i]) = CHUNK_SIZE /\ Len(DOCUMENT_CHUNKS[j]) < CHUNK_SIZE

\* C4: process_pdfs with no files reports "No files uploaded" and leaves the
\* corpus as it was.
C4_NoFilesKeepsCorpus ==
    [][(call'.op = "process_pdfs" /\ ~Truthy(call'.files)) =>
          (DOCUMENT_CHUNKS' = DOCUMENT_CHUNKS /\ status' = STATUS_NO_FILES)]_vars

\* An empty upload on a corpus that was not empty.
C4_Witness ==
    /\ call.op = "process_pdfs"
    /\ ~Truthy(call.files)
    /\ call.before_len > 0
    /\ Len(DOCUMENT_CHUNKS) = call.before_len
    /\ status = STATUS_NO_FILES

\* C5: clear_all empties the corpus; on an empty corpus every question gets
\* the "Please upload" reply and leaves the corpus empty; the corpus becomes
\* non-empty only by a process_pdfs call.
C5_ClearThenPleaseUpload ==
    [][/\ call'.op = "clear_all" => DOCUMENT_CHUNKS' = <<>>
       /\ (DOCUMENT_CHUNKS = <<>> /\ call'.op = "chat_fn") =>
              (~call'.raised /\ call'.reply = PLEASE_UPLOAD /\ DOCUMENT_CHUNKS' = <<>>)
       /\ (DOCUMENT_CHUNKS = <<>> /\ DOCUMENT_CHUNKS' # <<>>) =>
              (call'.op = "process_pdfs" /\ Truthy(call'.files))]_vars

\* A question with words, asked with a key configured after a clear_all and
\* before any further upload.
C5_Witness ==
    /\ call.op = "chat_fn"
    /\ call.reply = PLEASE_UPLOAD
    /\ status = STATUS_CLEARED
    /\ Truthy(GROQ_API_KEY)
    /\ clean_words(call.message) # {}

\* The completion call failed: no connection, a status other than 200, or a
\* 200 response without content.
Failed(response) ==
    response.raises \/ response.status_code # 200 \/ ~response.has_content

\* C6: when the completion call fails, chat_fn still returns, the reply is
\* the generic error string, and the corpus is as before.
C6_FailureGivesErrorReply ==
    (call.op = "chat_fn" /\ posts # <<>> /\ Failed(posts[1].response)) =>
        /\ ~call.raised
        /\ call.reply = API_ERROR
        /\ Len(DOCUMENT_CHUNKS) = call.before_len

\* C9: process_pdfs with files leaves the chunks of the text of these files
\* as the corpus, and reports the number of files and of chunks.
C9_ReplacesCorpus ==
    (call.op = "process_pdfs" /\ Truthy(call.files)) =>
        /\ DOCUMENT_CHUNKS = chunk_text(extract_text_from_pdfs(call.files.val), CHUNK_SIZE)
        /\ status = STATUS_PROCESSED(Len(call.files.val), Len(DOCUMENT_CHUNKS))

\* An upload without a chunk, on a corpus that was not empty.
C9_Witness ==
    /\ call.op = "process_pdfs"
    /\ Truthy(call.files)
    /\ call.before_len > 0
    /\ DOCUMENT_CHUNKS = <<>>
    /\ status = STATUS_PROCESSED(Len(call.files.val), 0)

\* C10: a request is posted only by chat_fn, on a non-empty corpus, with a
\* key, when retrieval found a chunk; one request per call; its context is
\* the retrieved chunks in ranked order with a blank line between them.
C10_PostOnlyWithContext ==
    posts # <<>> =>
        /\ call.op = "chat_fn"
        /\ Len(posts) = 1
        /\ DOCUMENT_CHUNKS # <<>>
        /\ Truthy(GROQ_API_KEY)
        /\ LET found == retrieve_relevant_chunks(call.message, TOP_K)
           IN  /\ Len(found) > 0
               /\ posts[1].context =
                      Concat([i \in DOMAIN found |->
                                 IF i = 1 THEN found[i] ELSE <<"\n", "\n">> \o found[i]])
        /\ Len(posts[1].context) > 0
        /\ posts[1].question = call.message

\* A request whose context joins two chunks.
C10_Witness ==
    /\ posts # <<>>
    /\ Len(retrieve_relevant_chunks(call.message, TOP_K)) >= 2

====
